---- MODULE Spec2Model ----
(***************************************************************************)
(* Model of the OCR service (src/ocr_service) and of the ocr_document tool *)
(* of the MCP server (src/mcp_server/tools.py).                            *)
(*                                                                         *)
(* Service side: the asyncio event loop runs request handlers and their    *)
(* per-item coroutines; every block of code between two awaits is one      *)
(* action.  The ThreadPoolExecutor worker is a real thread and has its own *)
(* actions.  The network, the engine and the markdown rendering are the    *)
(* environment: their outcomes are chosen with \E.                         *)
(***************************************************************************)
EXTENDS Integers, Sequences, FiniteSets, TLC

\* ------------------------------------------------------------------ bounds
\* Number of HTTP requests ConcurrentSpec lets the service receive.
NumRequests == 2
\* Number of item coroutines (and so of predict jobs) the model lets the
\* service create over one run.
MaxTasks == 2
\* Every request body of up to this many URLs is enumerated.
MaxBatchLen == 2
\* Number of files the engine's results write into one scratch directory.
MaxWrites == 3

\* ------------------------------------------------------- program constants
\* settings.MAX_URLS_PER_REQUEST (used at schemas.py:44).
MAX_URLS_PER_REQUEST == 10
\* ThreadPoolExecutor(max_workers=1) (main.py:34)
max_workers == 1

Null == "null"

\* ------------------------------------------------------------------- URLs
\* A URL is a string; the model keeps it as the sequence of its characters
\* so that startswith is computed and not assumed.
UrlText ==
  << <<"h","t","t","p",":","/","/","a">>,
     <<"h","t","t","p","s",":","/","/","b">>,
     <<"f","t","p",":","/","/","c">> >>
Urls == 1..Len(UrlText)

startswith(s, prefix) ==
  /\ Len(s) >= Len(prefix)
  /\ SubSeq(s, 1, Len(prefix)) = prefix

SchemePrefixes == { <<"h","t","t","p",":","/","/">>, <<"h","t","t","p","s",":","/","/">> }

\* url.startswith(("http://", "https://"))
HasAllowedScheme(u) == \E p \in SchemePrefixes : startswith(UrlText[u], p)

\* OCRRequest: Field(min_length=1, max_length=MAX_URLS_PER_REQUEST) and
\* validate_urls.  TRUE iff pydantic accepts the body.
validate_urls_anyok(v) == \E k \in 1..Len(v) : HasAllowedScheme(v[k])
validate_urls(v) == \A k \in 1..Len(v) : HasAllowedScheme(v[k])

OCRRequestValid(v) ==
  /\ Len(v) >= 1
  /\ Len(v) <= MAX_URLS_PER_REQUEST
  /\ validate_urls(v)

RECURSIVE SeqsOfLen(_, _)
SeqsOfLen(S, n) ==
  IF n = 0 THEN { <<>> }
  ELSE { Append(s, x) : s \in SeqsOfLen(S, n - 1), x \in S }

\* Request bodies the environment may send: every list of 0..MaxBatchLen
\* URLs, and the well-formed lists at and just above the maximum length.
LongBatch(n) == [k \in 1..n |-> 1]
Batches ==
  UNION { SeqsOfLen(Urls, n) : n \in 0..MaxBatchLen }
    \cup { LongBatch(MAX_URLS_PER_REQUEST), LongBatch(MAX_URLS_PER_REQUEST + 1) }

Reqs == 1..NumRequests
\* The model never runs more than MaxTasks items in one request.
Items == 1..MaxTasks

VARIABLES
  req_state,   \* r -> "none" | "running" | "responded" | "rejected" | "cancelled"
  req_kind,    \* r -> "none" | "ocr" | "upload"
  req_urls,    \* r -> body.urls
  response,    \* r -> the response sent, or Null
  task,        \* r -> i -> the coroutine of item i: pc, url, gets, result
  scratch,     \* r -> i -> the scratch file and directory of item i
  job,         \* r -> i -> the concurrent future of the predict call
  ex_queue,    \* the executor's work queue (FIFO of <<r, i>>)
  ex_running,  \* the jobs a worker thread is executing predict for
  done_seq,    \* r -> the items in the order in which they completed
  req_file,    \* r -> the content type and size of the file of an upload
  app_pipeline,  \* app.state has the attribute pipeline
  app_executor,  \* app.state.executor: "unset" | "running" | "shutdown"
  lifespan_pc,   \* lifespan: "init" | "serving" | "draining" | "stopped" | "failed"
  ex_created,    \* number of ThreadPoolExecutor objects created
  ex_shutdowns,  \* number of executor.shutdown calls made
  ready_resp,    \* the last answer of GET /health/ready and what app.state held
  td_pc,       \* ocr_document: "idle" | "loop" | "done"
  td_url,      \* ocr_document: file_url
  td_script,   \* what the endpoint does to the 1st, 2nd, 3rd POST it receives
  td_attempt,  \* ocr_document: the loop variable attempt
  td_posts,    \* number of POSTs sent to the endpoint
  td_sleeps,   \* the arguments of the asyncio.sleep calls made, in order
  td_ret,      \* ocr_document: the value returned (which message it is)
  td_parts,    \* ocr_document: the texts or errors joined into the value returned
  x_pc,        \* extract_markdown: "saving" | "done"
  x_dir,       \* the scratch directory: file name -> whether it exists, its content
  x_writes,    \* the file names in the order in which the results wrote them
  x_out,       \* extract_markdown: the value returned
  fs_fault     \* how the file system answers the removal of a scratch resource

svars == << req_state, req_kind, req_urls, response, task, scratch, job,
            ex_queue, ex_running, done_seq, req_file >>
avars == << app_pipeline, app_executor, lifespan_pc, ex_created, ex_shutdowns, ready_resp >>
tvars == << td_pc, td_url, td_script, td_attempt, td_posts, td_sleeps, td_ret, td_parts >>
xvars == << x_pc, x_dir, x_writes, x_out >>
fvars == << fs_fault >>
vars == << svars, avars, tvars, xvars, fvars >>

\* ------------------------------------------------------------ file names
\* The names and the contents of the files a result can write, as the
\* sequences of their characters.
FileNameText ==
  << <<"a", ".", "m", "d">>,
     <<"b", ".", "m", "d">>,
     <<"a", "b", ".", "m", "d">>,
     <<"a", ".", "t", "x", "t">> >>
FileNames == 1..Len(FileNameText)
FileContents == { <<"x">>, <<"y", "\n">>, <<>> }
NoDirEntry == [exists |-> FALSE, content |-> <<>>]

\* The code points of the characters of the file names.
Ord == [c \in {".", "a", "b", "d", "m", "t", "x"} |->
          CASE c = "." -> 46 [] c = "a" -> 97 [] c = "b" -> 98 [] c = "d" -> 100
            [] c = "m" -> 109 [] c = "t" -> 116 [] c = "x" -> 120]

\* One item's coroutine.  dl and ext record what the environment did to this
\* item (download outcome, markdown rendering outcome); the engine's outcome
\* is in job[r][i].out.
NoResult == [url |-> 0, status |-> "none", text |-> Null, error |-> Null, error_type |-> Null]
NoTask == [pc |-> "none", url |-> 0, gets |-> 0, dl |-> Null, ext |-> Null, result |-> NoResult]
NoScratch == [file |-> "none", file_rm |-> 0, dir |-> "none", dir_rm |-> 0, warned |-> 0]
\* seq is the job's place in the order of submission while it waits, calls
\* the number of times predict was called for it.
NoJob == [st |-> "none", out |-> Null, seq |-> 0, calls |-> 0]
NoFile == [content_type |-> Null, size |-> 0]
NoReady == [code |-> 0, pipeline |-> FALSE, executor |-> "unset"]
NoResponse == [code |-> 0, results |-> <<>>, total_processed |-> 0, successful |-> 0, failed |-> 0]

Init ==
  /\ req_state = [r \in Reqs |-> "none"]
  /\ req_kind = [r \in Reqs |-> "none"]
  /\ req_urls = [r \in Reqs |-> <<>>]
  /\ response = [r \in Reqs |-> NoResponse]
  /\ task = [r \in Reqs |-> [i \in Items |-> NoTask]]
  /\ scratch = [r \in Reqs |-> [i \in Items |-> NoScratch]]
  /\ job = [r \in Reqs |-> [i \in Items |-> NoJob]]
  /\ ex_queue = <<>>
  /\ ex_running = {}
  /\ done_seq = [r \in Reqs |-> <<>>]
  /\ req_file = [r \in Reqs |-> NoFile]
  /\ app_pipeline = FALSE
  /\ app_executor = "unset"
  /\ lifespan_pc = "init"
  /\ ex_created = 0
  /\ ex_shutdowns = 0
  /\ ready_resp = NoReady
  /\ td_pc = "idle"
  /\ td_url = 0
  /\ td_script = <<>>
  /\ td_attempt = 0
  /\ td_posts = 0
  /\ td_sleeps = <<>>
  /\ td_ret = Null
  /\ td_parts = <<>>
  /\ x_pc = "saving"
  /\ x_dir = [n \in FileNames |-> NoDirEntry]
  /\ x_writes = <<>>
  /\ x_out = <<>>
  /\ fs_fault = "none"

\* ---------------------------------------------------------------- lifespan
\* Both attribute reads of a handler (routes.py:27-28, 55-56, 86-87) succeed.
AppReady_executor_only == app_executor # "unset"
AppReady == app_pipeline /\ app_executor # "unset"

\* The event loop is free to run a handler or to resume a coroutine.  It is
\* not while the lifespan blocks it in executor.shutdown(wait=True), and
\* there is none once startup has failed.
LoopRuns == lifespan_pc \in {"init", "serving", "stopped"}

\* main.py:17-44: the code of lifespan before the yield.  It has no await.
\* ok = FALSE: the import or the constructor of the pipeline raises, the
\* lifespan raises RuntimeError and the application does not start.
Startup(ok) ==
  /\ lifespan_pc = "init"
  /\ IF ok
     THEN /\ app_pipeline' = TRUE
          /\ app_executor' = "running"
          /\ ex_created' = ex_created + 1
          /\ lifespan_pc' = "serving"
     ELSE /\ lifespan_pc' = "failed"
          /\ UNCHANGED << app_pipeline, app_executor, ex_created >>
  /\ UNCHANGED << ex_shutdowns, ready_resp >>
  /\ UNCHANGED << svars, tvars, xvars, fvars >>

\* main.py:46-47: executor.shutdown(wait=True) marks the executor as shut
\* down and then blocks the calling thread, which is the event loop's.
ShutdownBegin ==
  /\ lifespan_pc = "serving"
  /\ app_executor # "unset"
  /\ app_executor' = "shutdown"
  /\ ex_shutdowns' = ex_shutdowns + 1
  /\ lifespan_pc' = "draining"
  /\ UNCHANGED << app_pipeline, ex_created, ready_resp >>
  /\ UNCHANGED << svars, tvars, xvars, fvars >>

\* shutdown(wait=True) returns once the worker has taken every queued work
\* item and has ended.
Drained_nowait == TRUE
Drained == ex_queue = <<>> /\ ex_running = {}

\* main.py:47-53: shutdown returns; the pipeline attribute is deleted.
ShutdownEnd ==
  /\ lifespan_pc = "draining"
  /\ Drained
  /\ app_pipeline' = FALSE
  /\ lifespan_pc' = "stopped"
  /\ UNCHANGED << app_executor, ex_created, ex_shutdowns, ready_resp >>
  /\ UNCHANGED << svars, tvars, xvars, fvars >>

\* GET /health/ready (routes.py:23-43).  The handler is a plain function,
\* so it runs in a thread of its own and does not wait for the event loop.
Readiness ==
  /\ lifespan_pc # "failed"
  /\ ready_resp' = [code |-> IF AppReady THEN 200 ELSE 503,
                    pipeline |-> app_pipeline, executor |-> app_executor]
  /\ UNCHANGED << app_pipeline, app_executor, lifespan_pc, ex_created, ex_shutdowns >>
  /\ UNCHANGED << svars, tvars, xvars, fvars >>

\* ------------------------------------------------------- resource guards
\* temp_file_cleanup: NamedTemporaryFile(delete=False) on entry; on every
\* exit of the with block the finally clause removes the file if it exists.
\* how is the way the block is left: "return", "raise" or "cancel".
\*
\* fs_fault is what the file system does when a guard releases its resource:
\*   "none"    os.remove / shutil.rmtree succeeds;
\*   "gone"    the resource was removed by someone else before the finally
\*             clause ran, so os.path.exists is False and nothing is called;
\*   "vanish"  the resource is removed between os.path.exists and the
\*             removal, which raises FileNotFoundError;
\*   "denied"  the removal raises PermissionError and the resource stays.
Faults == {"none", "gone", "vanish", "denied"}
OSErrors == {"OSError", "FileNotFoundError", "PermissionError"}

\* The exception os.remove / shutil.rmtree raises (Null: none).
remove_exc(fault) ==
  CASE fault = "vanish" -> "FileNotFoundError"
    [] fault = "denied" -> "PermissionError"
    [] OTHER -> Null

\* ocr.py:40-46, 58-64: `except OSError` around the removal.  TRUE: the
\* exception leaves the finally clause and replaces whatever was leaving
\* the with block.
cleanup_raises_nocatch(exc) == exc # Null
cleanup_raises(exc) == exc # Null /\ exc \notin OSErrors

\* The finally clause of a guard whose resource exists raises.
release_raises(exists) ==
  exists /\ fs_fault # "gone" /\ cleanup_raises(remove_exc(fs_fault))

temp_file_enter(s) == [s EXCEPT !.file = "exists"]

temp_file_exit_nofinally(s, how) ==
  IF s.file = "exists" /\ how = "return"
  THEN [s EXCEPT !.file = "gone", !.file_rm = @ + 1]
  ELSE s
temp_file_exit(s, how) ==
  IF s.file = "exists"
  THEN CASE fs_fault = "gone" -> [s EXCEPT !.file = "gone"]
         [] fs_fault = "vanish" -> [s EXCEPT !.file = "gone", !.warned = @ + 1]
         [] fs_fault = "denied" -> [s EXCEPT !.warned = @ + 1]
         [] OTHER -> [s EXCEPT !.file = "gone", !.file_rm = @ + 1]
  ELSE s

\* temp_dir_cleanup: mkdtemp on entry, rmtree in the finally clause.
temp_dir_enter(s) == [s EXCEPT !.dir = "exists"]

temp_dir_exit(s, how) ==
  IF s.dir = "exists"
  THEN CASE fs_fault = "gone" -> [s EXCEPT !.dir = "gone"]
         [] fs_fault = "vanish" -> [s EXCEPT !.dir = "gone", !.warned = @ + 1]
         [] fs_fault = "denied" -> [s EXCEPT !.warned = @ + 1]
         [] OTHER -> [s EXCEPT !.dir = "gone", !.dir_rm = @ + 1]
  ELSE s

\* The file system starts to fail: every later release meets the fault f.
FsFault(f) ==
  /\ lifespan_pc = "init"
  /\ fs_fault = "none"
  /\ f # "none"
  /\ fs_fault' = f
  /\ UNCHANGED << svars, avars, tvars, xvars >>

\* ------------------------------------------------------------ download
ALLOWED_MIME_TYPES == {"image/png", "image/jpeg", "image/jpg", "image/tiff", "application/pdf"}

\* settings.MAX_DOWNLOAD_SIZE, in MB.
MAX_DOWNLOAD_SIZE == 10

\* What one client.get can do: raise ("timeout", "request_error") or return a
\* response.  content_length is the Content-Length header (<<>>: absent),
\* size the number of MB the body really has, content_type the Content-Type
\* header as its ";"-separated fields (<<>>: absent), body_type what the
\* body really is.
HttpResponse(status, content_length, size, content_type, body_type) ==
  [kind |-> "response", status |-> status, content_length |-> content_length,
   size |-> size, content_type |-> content_type, body_type |-> body_type]
HttpRaises(kind) ==
  [kind |-> kind, status |-> 0, content_length |-> <<>>, size |-> 0,
   content_type |-> <<>>, body_type |-> Null]

ResponseOf(outcome) ==
  CASE outcome = "ok" ->
         HttpResponse(200, <<1>>, 1, <<"application/pdf">>, "application/pdf")
    [] outcome = "timeout" -> HttpRaises("timeout")
    [] outcome = "request_error" -> HttpRaises("request_error")
    [] outcome = "http_status" ->
         HttpResponse(404, <<1>>, 1, <<"text/html">>, "text/html")
    [] outcome = "too_large" ->
         HttpResponse(200, <<MAX_DOWNLOAD_SIZE + 5>>, MAX_DOWNLOAD_SIZE + 5, <<"image/png">>, "image/png")
    [] outcome = "bad_type" ->
         HttpResponse(200, <<1>>, 1, <<"text/html", "charset=utf-8">>, "text/html")
    [] outcome = "too_large_no_length" ->
         HttpResponse(200, <<>>, MAX_DOWNLOAD_SIZE + 5, <<"image/png">>, "image/png")
    [] outcome = "too_large_short_length" ->
         HttpResponse(200, <<1>>, MAX_DOWNLOAD_SIZE + 5, <<"image/png">>, "image/png")
    [] outcome = "at_limit" ->
         HttpResponse(200, <<MAX_DOWNLOAD_SIZE>>, MAX_DOWNLOAD_SIZE, <<"image/jpeg">>, "image/jpeg")
    [] outcome = "just_over" ->
         HttpResponse(200, <<MAX_DOWNLOAD_SIZE + 1>>, MAX_DOWNLOAD_SIZE + 1, <<"image/tiff">>, "image/tiff")
    [] outcome = "ok_params" ->
         HttpResponse(200, <<1>>, 1, <<"image/png", "charset=binary">>, "image/png")
    [] outcome = "no_type_png" ->
         HttpResponse(200, <<1>>, 1, <<>>, "image/png")
    [] outcome = "no_type_html" ->
         HttpResponse(200, <<1>>, 1, <<>>, "text/html")

\* The outcomes of the GET the service is run with.
DownloadOutcomes == {"ok", "timeout", "request_error", "http_status", "too_large", "bad_type"}
TransientOutcomes == {"timeout", "request_error"}

\* response.headers.get("content-type", "").split(";")[0].strip()
content_type_of(resp) ==
  IF resp.content_type = <<>> THEN "" ELSE resp.content_type[1]

\* ocr.py:69-103 after the GET: the message of the DownloadError raised, or
\* Null when the body is returned.
response_error(resp) ==
  IF resp.kind = "timeout" THEN "Download timeout"
  ELSE IF resp.kind = "request_error" THEN "Request failed"
  ELSE IF resp.status >= 400 THEN "HTTP status"
  ELSE IF resp.content_length # <<>> /\ resp.content_length[1] > MAX_DOWNLOAD_SIZE
       THEN "File too large"
  ELSE IF content_type_of(resp) # "" /\ content_type_of(resp) \notin ALLOWED_MIME_TYPES
       THEN "Unsupported content type"
  ELSE Null

\* download_file: one GET, no loop; every failure becomes a DownloadError
\* whose message is returned here (Null: the body is returned).
download_file(outcome) == response_error(ResponseOf(outcome))

\* ------------------------------------------------------------ results
OCRResult(url, status, text, error, error_type) ==
  [url |-> url, status |-> status, text |-> text, error |-> error, error_type |-> error_type]

\* The two except clauses of process_single_url (ocr.py:174-187).  exc is
\* the class of the exception that left the try block.  raised = TRUE means
\* the exception leaves the coroutine.
process_single_url_except_downloadonly(url, exc, msg) ==
  IF exc = "DownloadError"
  THEN [raised |-> FALSE, result |-> OCRResult(url, "error", Null, msg, "download_error")]
  ELSE [raised |-> TRUE, result |-> NoResult]
process_single_url_except_alldownload(url, exc, msg) ==
  [raised |-> FALSE, result |-> OCRResult(url, "error", Null, msg, "download_error")]
process_single_url_except(url, exc, msg) ==
  IF exc = "DownloadError"
  THEN [raised |-> FALSE, result |-> OCRResult(url, "error", Null, msg, "download_error")]
  ELSE [raised |-> FALSE, result |-> OCRResult(url, "error", Null, msg, "processing_error")]

\* ocr.py:159-172: the value returned after extraction.
process_single_url_return_emptyfails(url, md_content) ==
  IF md_content = ""
  THEN OCRResult(url, "error", Null, "No text extracted", "processing_error")
  ELSE OCRResult(url, "success", md_content, Null, Null)
process_single_url_return(url, md_content) ==
  IF md_content = ""
  THEN OCRResult(url, "error", Null, "No text extracted", "empty_result")
  ELSE OCRResult(url, "success", md_content, Null, Null)

\* The text extract_markdown yields for an engine outcome.
EngineOutcomes == {"text", "empty", "raise"}
md_of(out) == IF out = "text" THEN "md" ELSE ""

TasksCreated == Cardinality({ p \in Reqs \X Items : task[p[1]][p[2]].pc # "none" })

\* Requests are numbered in the order in which they arrive.
Arrives(r) ==
  /\ req_state[r] = "none"
  /\ \A q \in Reqs : q < r => req_state[q] # "none"

\* ---------------------------------------------------------------- executor
\* loop.run_in_executor(executor, pipeline.predict, path): the work item is
\* appended to the executor's queue, its future is pending.
submit(q, r, i) == Append(q, <<r, i>>)

\* The jobs the executor has accepted so far.
Submitted == { p \in Reqs \X Items : job[p[1]][p[2]].st \notin {"none", "rejected"} }

\* The future of a work item just submitted.
PendingJob == [NoJob EXCEPT !.st = "pending", !.seq = Cardinality(Submitted) + 1]

\* executor.submit raises RuntimeError once shutdown was called.
RejectedJob == [NoJob EXCEPT !.st = "rejected"]

\* The worker's _work_queue.get(): the item taken and the queue left.
queue_get_lifo(q) == [item |-> q[Len(q)], rest |-> SubSeq(q, 1, Len(q) - 1)]
queue_get(q) == [item |-> Head(q), rest |-> Tail(q)]

\* A worker thread is free to take the next work item.
WorkerFree_pool == Cardinality(ex_running) < max_workers + 1
WorkerFree == Cardinality(ex_running) < max_workers

\* ----------------------------------------------------------- POST /ocr
\* asyncio.gather(*tasks) returns the children's results in the order of
\* the awaitables passed to it.
gather_as_completed(r) == [k \in 1..Len(done_seq[r]) |-> task[r][done_seq[r][k]].result]
gather(r) == [i \in 1..Len(req_urls[r]) |-> task[r][i].result]

\* routes.py:66-67
count_successful(results) == Cardinality({ k \in 1..Len(results) : results[k].status = "success" })

count_failed_hard(results, successful) ==
  Cardinality({ k \in 1..Len(results) :
                  results[k].error_type \in {"download_error", "processing_error"} })
count_failed(results, successful) == Len(results) - successful

OCRResponse(results) ==
  [code |-> 200,
   results |-> results,
   total_processed |-> Len(results),
   successful |-> count_successful(results),
   failed |-> count_failed(results, count_successful(results))]

\* The request arrives.  Pydantic validates the body before the handler is
\* entered; a rejected body gets 422 and the handler never runs.  An accepted
\* body enters the handler, which answers 503 when app.state lacks the
\* pipeline or the executor, and otherwise creates one coroutine per URL and awaits
\* gather; each coroutine runs up to its first await, the GET of download_file.
PostOcr(r, urls) ==
  /\ LoopRuns
  /\ Arrives(r)
  /\ req_kind' = [req_kind EXCEPT ![r] = "ocr"]
  /\ req_urls' = [req_urls EXCEPT ![r] = urls]
  /\ IF OCRRequestValid(urls) /\ ~AppReady
     THEN /\ req_state' = [req_state EXCEPT ![r] = "unavailable"]
          /\ response' = [response EXCEPT ![r] = [NoResponse EXCEPT !.code = 503]]
          /\ UNCHANGED task
     ELSE IF OCRRequestValid(urls)
     THEN /\ TasksCreated + Len(urls) <= MaxTasks
          /\ req_state' = [req_state EXCEPT ![r] = "running"]
          /\ task' = [task EXCEPT ![r] =
                [i \in Items |->
                   IF i <= Len(urls)
                   THEN [NoTask EXCEPT !.pc = "download", !.url = urls[i], !.gets = 1]
                   ELSE NoTask]]
          /\ UNCHANGED response
     ELSE /\ req_state' = [req_state EXCEPT ![r] = "rejected"]
          /\ response' = [response EXCEPT ![r] = [NoResponse EXCEPT !.code = 422]]
          /\ UNCHANGED task
  /\ UNCHANGED << scratch, job, ex_queue, ex_running, done_seq >>
  /\ UNCHANGED << req_file, avars, tvars, xvars, fvars >>

\* The GET of item i completes with outcome o and the coroutine resumes
\* (ocr.py:144-154).  On a payload it enters temp_file_cleanup, writes the
\* file and awaits run_ocr; on a DownloadError it returns the error result.
\* run_in_executor raises RuntimeError when the executor was shut down; the
\* with block is left and the error is the item's result.
DownloadDone(r, i, o) ==
  /\ LoopRuns
  /\ req_state[r] = "running"
  /\ task[r][i].pc = "download"
  /\ LET msg == download_file(o)
         t == [task[r][i] EXCEPT !.dl = o]
     IN IF msg = Null /\ app_executor = "shutdown"
        THEN LET h == process_single_url_except(t.url, "Exception", "RuntimeError")
             IN /\ task' = [task EXCEPT ![r][i] =
                      [t EXCEPT !.pc = IF h.raised THEN "raised" ELSE "done",
                                !.result = h.result]]
                /\ scratch' = [scratch EXCEPT ![r][i] =
                      temp_file_exit(temp_file_enter(@), "raise")]
                /\ job' = [job EXCEPT ![r][i] = RejectedJob]
                /\ done_seq' = [done_seq EXCEPT ![r] = Append(@, i)]
                /\ UNCHANGED ex_queue
        ELSE IF msg = Null
        THEN /\ task' = [task EXCEPT ![r][i] = [t EXCEPT !.pc = "await_ocr"]]
             /\ scratch' = [scratch EXCEPT ![r][i] = temp_file_enter(@)]
             /\ job' = [job EXCEPT ![r][i] = PendingJob]
             /\ ex_queue' = submit(ex_queue, r, i)
             /\ UNCHANGED done_seq
        ELSE LET h == process_single_url_except(t.url, "DownloadError", msg)
             IN /\ task' = [task EXCEPT ![r][i] =
                      [t EXCEPT !.pc = IF h.raised THEN "raised" ELSE "done",
                                !.result = h.result]]
                /\ done_seq' = [done_seq EXCEPT ![r] = Append(@, i)]
                /\ UNCHANGED << scratch, job, ex_queue >>
  /\ UNCHANGED << req_state, req_kind, req_urls, response, ex_running >>
  /\ UNCHANGED << req_file, avars, tvars, xvars, fvars >>

\* A worker thread takes the head of the queue.  A work item whose future
\* was cancelled while it waited is dropped without calling predict.
WorkerStart ==
  /\ ex_queue # <<>>
  /\ WorkerFree
  /\ LET g == queue_get(ex_queue)
         j == g.item
     IN /\ ex_queue' = g.rest
        /\ IF job[j[1]][j[2]].st = "cancelled"
           THEN UNCHANGED << job, ex_running >>
           ELSE /\ job' = [job EXCEPT ![j[1]][j[2]] =
                      [@ EXCEPT !.st = "running", !.seq = 0, !.calls = @ + 1]]
                /\ ex_running' = ex_running \cup {j}
  /\ UNCHANGED << req_state, req_kind, req_urls, response, task, scratch, done_seq >>
  /\ UNCHANGED << req_file, avars, tvars, xvars, fvars >>

\* pipeline.predict returns (out = "text" or "empty": what its output will
\* render to) or raises; the future holds the outcome.
WorkerFinish(j, out) ==
  /\ j \in ex_running
  /\ ex_running' = ex_running \ {j}
  /\ job' = [job EXCEPT ![j[1]][j[2]] = [@ EXCEPT !.st = "finished", !.out = out]]
  /\ UNCHANGED << req_state, req_kind, req_urls, response, task, scratch, ex_queue, done_seq >>
  /\ UNCHANGED << req_file, avars, tvars, xvars, fvars >>

\* The state of the scratch resources and the result after the code that
\* follows `await run_ocr` in process_single_url and process_uploaded_file:
\* eng is the future's outcome, ext the outcome of rendering ("ok"/"raise").
AfterOcr(s, eng, ext) ==
  IF eng = "raise"
  THEN [scratch |-> temp_file_exit(s, "raise"), exc |-> TRUE, md |-> ""]
  ELSE LET s1 == temp_dir_enter(s)
       IN IF ext = "raise"
          THEN [scratch |-> temp_file_exit(temp_dir_exit(s1, "raise"), "raise"),
                exc |-> TRUE, md |-> ""]
          ELSE LET raises == release_raises(s1.dir = "exists") \/ release_raises(s1.file = "exists")
               IN [scratch |-> temp_file_exit(temp_dir_exit(s1, "return"), "return"),
                   exc |-> raises, md |-> IF raises THEN "" ELSE md_of(eng)]

ExtOutcomes(eng) == IF eng = "raise" THEN {Null} ELSE {"ok", "raise"}

\* The future of item i is done and the coroutine resumes (ocr.py:154-187).
OcrResume(r, i, ext) ==
  /\ LoopRuns
  /\ req_state[r] = "running"
  /\ req_kind[r] = "ocr"
  /\ task[r][i].pc = "await_ocr"
  /\ job[r][i].st = "finished"
  /\ ext \in ExtOutcomes(job[r][i].out)
  /\ LET a == AfterOcr(scratch[r][i], job[r][i].out, ext)
         t == [task[r][i] EXCEPT !.ext = ext]
         h == process_single_url_except(t.url, "Exception", "engine or extraction error")
     IN /\ scratch' = [scratch EXCEPT ![r][i] = a.scratch]
        /\ task' = [task EXCEPT ![r][i] =
              IF a.exc
              THEN [t EXCEPT !.pc = IF h.raised THEN "raised" ELSE "done", !.result = h.result]
              ELSE [t EXCEPT !.pc = "done", !.result = process_single_url_return(t.url, a.md)]]
  /\ done_seq' = [done_seq EXCEPT ![r] = Append(@, i)]
  /\ UNCHANGED << req_state, req_kind, req_urls, response, job, ex_queue, ex_running >>
  /\ UNCHANGED << req_file, avars, tvars, xvars, fvars >>

AllDone(r) == \A i \in 1..Len(req_urls[r]) : task[r][i].pc = "done"
SomeRaised(r) == \E i \in 1..Len(req_urls[r]) : task[r][i].pc = "raised"

\* gather completes and the handler builds the response (routes.py:64-74).
\* gather(return_exceptions=False) passes the first exception of a child on
\* to the handler, which then ends with a 500 and no OCRResponse.
GatherDone(r) ==
  /\ LoopRuns
  /\ req_state[r] = "running"
  /\ req_kind[r] = "ocr"
  /\ SomeRaised(r) \/ AllDone(r)
  /\ req_state' = [req_state EXCEPT ![r] = "responded"]
  /\ response' = [response EXCEPT ![r] =
        IF SomeRaised(r) THEN [NoResponse EXCEPT !.code = 500] ELSE OCRResponse(gather(r))]
  /\ UNCHANGED << req_kind, req_urls, task, scratch, job, ex_queue, ex_running, done_seq >>
  /\ UNCHANGED << req_file, avars, tvars, xvars, fvars >>

\* ------------------------------------------------------ POST /ocr_upload
\* Declared content types and sizes (MB) of the uploads the environment sends.
UploadTypes == {"", "image/png", "application/pdf", "text/html"}
UploadSizes == {1, MAX_DOWNLOAD_SIZE, MAX_DOWNLOAD_SIZE + 1}

UploadOCRResponse(status, text, error) ==
  [code |-> 200, status |-> status, text |-> text, error |-> error]

\* routes.py:91-108: the two checks made before process_uploaded_file.
\* Null: the upload passes.
upload_check(content_type, size) ==
  IF content_type # "" /\ content_type \notin ALLOWED_MIME_TYPES
  THEN "Unsupported content type"
  ELSE IF size > MAX_DOWNLOAD_SIZE
       THEN "File too large"
       ELSE Null

\* ocr.py:209-218 and routes.py:116-123.
upload_result(exc, md_content) ==
  IF exc
  THEN UploadOCRResponse("error", Null, "engine or extraction error")
  ELSE IF md_content = ""
       THEN UploadOCRResponse("error", Null, "No text extracted from document")
       ELSE UploadOCRResponse("success", md_content, Null)

\* The upload arrives (routes.py:78-114, ocr.py:194-204): a rejected upload
\* is answered at once; an accepted one is written to a scratch file and the
\* handler awaits run_ocr.  file.read() returns the spooled bytes of the
\* upload and is taken as part of the same step.
PostUpload(r, content_type, size) ==
  /\ LoopRuns
  /\ Arrives(r)
  /\ req_kind' = [req_kind EXCEPT ![r] = "upload"]
  /\ req_file' = [req_file EXCEPT ![r] = [content_type |-> content_type, size |-> size]]
  /\ LET e == upload_check(content_type, size)
     IN IF ~AppReady
        THEN /\ req_state' = [req_state EXCEPT ![r] = "unavailable"]
             /\ response' = [response EXCEPT ![r] = [NoResponse EXCEPT !.code = 503]]
             /\ UNCHANGED << task, scratch, job, ex_queue >>
        ELSE IF e # Null
        THEN /\ req_state' = [req_state EXCEPT ![r] = "responded"]
             /\ response' = [response EXCEPT ![r] = UploadOCRResponse("error", Null, e)]
             /\ UNCHANGED << task, scratch, job, ex_queue >>
        ELSE IF app_executor = "shutdown"
        THEN /\ req_state' = [req_state EXCEPT ![r] = "responded"]
             /\ response' = [response EXCEPT ![r] = upload_result(TRUE, "")]
             /\ task' = [task EXCEPT ![r][1] = [NoTask EXCEPT !.pc = "done"]]
             /\ scratch' = [scratch EXCEPT ![r][1] =
                   temp_file_exit(temp_file_enter(@), "raise")]
             /\ job' = [job EXCEPT ![r][1] = RejectedJob]
             /\ UNCHANGED ex_queue
        ELSE /\ TasksCreated + 1 <= MaxTasks
             /\ req_state' = [req_state EXCEPT ![r] = "running"]
             /\ task' = [task EXCEPT ![r][1] = [NoTask EXCEPT !.pc = "await_ocr"]]
             /\ scratch' = [scratch EXCEPT ![r][1] = temp_file_enter(@)]
             /\ job' = [job EXCEPT ![r][1] = PendingJob]
             /\ ex_queue' = submit(ex_queue, r, 1)
             /\ UNCHANGED response
  /\ UNCHANGED << req_urls, ex_running, done_seq >>
  /\ UNCHANGED << avars, tvars, xvars, fvars >>

\* The future of the upload is done and the handler resumes.
UploadResume(r, ext) ==
  /\ LoopRuns
  /\ req_state[r] = "running"
  /\ req_kind[r] = "upload"
  /\ task[r][1].pc = "await_ocr"
  /\ job[r][1].st = "finished"
  /\ ext \in ExtOutcomes(job[r][1].out)
  /\ LET a == AfterOcr(scratch[r][1], job[r][1].out, ext)
     IN /\ scratch' = [scratch EXCEPT ![r][1] = a.scratch]
        /\ task' = [task EXCEPT ![r][1] = [@ EXCEPT !.pc = "done", !.ext = ext]]
        /\ response' = [response EXCEPT ![r] = upload_result(a.exc, a.md)]
  /\ req_state' = [req_state EXCEPT ![r] = "responded"]
  /\ UNCHANGED << req_kind, req_urls, job, ex_queue, ex_running, done_seq >>
  /\ UNCHANGED << req_file, avars, tvars, xvars, fvars >>

\* ----------------------------------------------------------- cancellation
\* The task running the handler is cancelled while it awaits (client gone,
\* server stopping).  gather cancels every child that is not done; each child
\* gets CancelledError at its await, which neither except clause catches, so
\* only the finally clauses run.  Cancelling the asyncio future of run_ocr
\* cancels the executor's future if predict has not started.
CancelTask(t) == IF t.pc \in {"download", "await_ocr"} THEN [t EXCEPT !.pc = "cancelled"] ELSE t

CancelScratch(t, s) == IF t.pc = "await_ocr" THEN temp_file_exit(s, "cancel") ELSE s

CancelJob_abort(t, j) ==
  IF t.pc = "await_ocr" /\ j.st \in {"pending", "running"}
  THEN [j EXCEPT !.st = "cancelled", !.seq = 0]
  ELSE j
CancelJob(t, j) ==
  IF t.pc = "await_ocr" /\ j.st = "pending" THEN [j EXCEPT !.st = "cancelled", !.seq = 0] ELSE j

Cancel(r) ==
  /\ LoopRuns
  /\ req_state[r] = "running"
  /\ req_state' = [req_state EXCEPT ![r] = "cancelled"]
  /\ task' = [task EXCEPT ![r] = [i \in Items |-> CancelTask(task[r][i])]]
  /\ scratch' = [scratch EXCEPT ![r] = [i \in Items |-> CancelScratch(task[r][i], scratch[r][i])]]
  /\ job' = [job EXCEPT ![r] = [i \in Items |-> CancelJob(task[r][i], job[r][i])]]
  /\ UNCHANGED << req_kind, req_urls, response, ex_queue, ex_running, done_seq >>
  /\ UNCHANGED << req_file, avars, tvars, xvars, fvars >>

\* -------------------------------------------------------- extract_markdown
\* s < t as Python compares two str.
str_lt(s, t) ==
  \E k \in 1..(Len(t)) :
    /\ \A m \in 1..(k - 1) : m <= Len(s) /\ s[m] = t[m]
    /\ \/ k = Len(s) + 1
       \/ k <= Len(s) /\ Ord[s[k]] < Ord[t[k]]

endswith(s, suffix) ==
  /\ Len(s) >= Len(suffix)
  /\ SubSeq(s, Len(s) - Len(suffix) + 1, Len(s)) = suffix

\* os.listdir(temp_out_dir)
listdir(dir) == { n \in FileNames : dir[n].exists }

\* The listing in the order in which the files were first written.
RECURSIVE written_listing(_, _)
written_listing(S, writes) ==
  IF writes = <<>> THEN <<>>
  ELSE IF Head(writes) \in S
       THEN <<Head(writes)>> \o written_listing(S \ {Head(writes)}, Tail(writes))
       ELSE written_listing(S, Tail(writes))

\* sorted(os.listdir(temp_out_dir)))
RECURSIVE sorted(_)
sorted(S) ==
  IF S = {} THEN <<>>
  ELSE LET least == CHOOSE n \in S :
                      \A m \in S \ {n} : str_lt(FileNameText[n], FileNameText[m])
       IN <<least>> \o sorted(S \ {least})

listing_written(dir, writes) == written_listing(listdir(dir), writes)
listing(dir, writes) == sorted(listdir(dir))

Whitespace == {" ", "\n", "\t"}

RECURSIVE lstrip(_)
lstrip(s) == IF s # <<>> /\ Head(s) \in Whitespace THEN lstrip(Tail(s)) ELSE s
RECURSIVE rstrip(_)
rstrip(s) ==
  IF s # <<>> /\ s[Len(s)] \in Whitespace THEN rstrip(SubSeq(s, 1, Len(s) - 1)) ELSE s
\* str.strip()
strip(s) == rstrip(lstrip(s))

\* ocr.py:124-129: the loop over the listing; md_content is the text so far.
RECURSIVE read_files(_, _, _)
read_files(dir, names, md_content) ==
  IF names = <<>> THEN md_content
  ELSE read_files(dir, Tail(names),
         IF endswith(FileNameText[Head(names)], <<".", "m", "d">>)
         THEN md_content \o dir[Head(names)].content \o <<"\n", "\n">>
         ELSE md_content)

\* ocr.py:123-136, for the directory the results have written.
extract_markdown(dir, writes) == strip(read_files(dir, listing(dir, writes), <<>>))

\* One result of the engine's output writes a file into the scratch
\* directory (ocr.py:117-119).
ExtractSave(n, c) ==
  /\ x_pc = "saving"
  /\ Len(x_writes) < MaxWrites
  /\ x_dir' = [x_dir EXCEPT ![n] = [exists |-> TRUE, content |-> c]]
  /\ x_writes' = Append(x_writes, n)
  /\ UNCHANGED << x_pc, x_out >>
  /\ UNCHANGED << svars, avars, tvars, fvars >>

\* The results are all saved; the directory is read and the text returned
\* (ocr.py:123-136).
ExtractRead ==
  /\ x_pc = "saving"
  /\ x_pc' = "done"
  /\ x_out' = extract_markdown(x_dir, x_writes)
  /\ UNCHANGED << x_dir, x_writes >>
  /\ UNCHANGED << svars, avars, tvars, fvars >>

\* ------------------------------------------- ocr_document (MCP server tool)
\* tools.py:33
retry_attempts == 3

\* The fields of the Settings object the tools import (src/settings.py).
\* The model_config has extra="ignore": no other attribute exists, and
\* reading one raises AttributeError.
SettingsFields == {"ENV", "DEBUG", "NWS_API_BASE", "USER_AGENT", "OCR_API_URL"}
settings_has(name) == name \in SettingsFields

\* What the endpoint can do to one POST: the three failures the tool tells
\* apart, or a 200 with one of the bodies of BodyOf.
OkOutcomes == {"ok_text", "ok_errors", "ok_none", "ok_bare_text", "ok_mixed",
               "ok_empty_text", "ok_error_with_text"}
PostOutcomes == {"timeout", "connect_error", "http_status"} \cup OkOutcomes
PostTransient == {"timeout", "connect_error"}
Scripts == SeqsOfLen(PostOutcomes, retry_attempts)

RECURSIVE pow2(_)
pow2(n) == IF n = 0 THEN 1 ELSE 2 * pow2(n - 1)

\* One entry of the "results" list of a 200 body.  Null: the key is absent
\* (or its value is None); "": the empty string.
ResultEntry(status, text, error) == [status |-> status, text |-> text, error |-> error]

\* The "results" list of the body of each 200 answer.
BodyOf(o) ==
  CASE o = "ok_text" -> << ResultEntry("success", "t1", Null) >>
    [] o = "ok_errors" -> << ResultEntry("error", Null, "e1"), ResultEntry("error", Null, "e2") >>
    [] o = "ok_bare_text" -> << ResultEntry(Null, "t1", Null), ResultEntry("success", "t2", Null) >>
    [] o = "ok_mixed" -> << ResultEntry("error", Null, "e1"), ResultEntry("success", "t1", Null) >>
    [] o = "ok_empty_text" -> << ResultEntry("success", "", Null) >>
    [] o = "ok_error_with_text" -> << ResultEntry("error", "t1", "e1") >>
    [] OTHER -> << >>

\* Python truth of an optional string.
truthy(v) == v \notin {Null, ""}

\* tools.py:61-67: the branch of the if / elif / elif an entry takes.
entry_branch(res) ==
  IF res.status = "success" /\ truthy(res.text)
  THEN "text"
  ELSE IF truthy(res.text)
       THEN "text"
       ELSE IF truthy(res.error) THEN "error" ELSE "skip"

RECURSIVE collect(_, _)
collect(results, branch) ==
  IF results = <<>>
  THEN <<>>
  ELSE LET res == Head(results)
           rest == collect(Tail(results), branch)
       IN IF entry_branch(res) = branch
          THEN << IF branch = "text" THEN res.text ELSE res.error >> \o rest
          ELSE rest

\* sep.join(xs), as the sequence of its pieces.
RECURSIVE join(_, _)
join(sep, xs) ==
  IF Len(xs) <= 1 THEN xs ELSE << Head(xs), sep >> \o join(sep, Tail(xs))

\* tools.py:56-80: the value returned for a 200 response: which message it
\* is (ret) and the pieces joined into it (parts).
parse_response(results) ==
  LET markdown_outputs == collect(results, "text")
      errors == collect(results, "error")
  IN IF results # <<>> /\ markdown_outputs # <<>>
     THEN [ret |-> "full_text", parts |-> join("\n\n---\n\n", markdown_outputs)]
     ELSE IF results # <<>> /\ errors # <<>>
          THEN [ret |-> "OCR Failed: errors", parts |-> join("; ", errors)]
          ELSE [ret |-> "No text extracted from document.", parts |-> <<>>]

handle_response(o) == parse_response(BodyOf(o)).ret

\* The tool is called (tools.py:33-38).
ToolCall(u, script) ==
  /\ td_pc = "idle"
  /\ td_url' = u
  /\ td_script' = script
  /\ IF ~HasAllowedScheme(u)
     THEN /\ td_pc' = "done"
          /\ td_ret' = "Error: Invalid URL scheme"
     ELSE /\ td_pc' = "loop"
          /\ td_ret' = Null
  /\ UNCHANGED << td_attempt, td_posts, td_sleeps, td_parts >>
  /\ UNCHANGED << svars, avars, xvars, fvars >>

\* One iteration of `for attempt in range(retry_attempts)` (tools.py:40-109),
\* the sleep before `continue` included, or the statement after the loop
\* (tools.py:111).  The argument settings.OCR_SERVICE_URL of client.post is
\* evaluated before the call: when the attribute does not exist the
\* AttributeError is caught by `except Exception` and nothing is sent.
ToolAttempt ==
  /\ td_pc = "loop"
  /\ IF td_attempt >= retry_attempts
     THEN /\ td_pc' = "done"
          /\ td_ret' = "OCR Failed: Max retries exceeded"
          /\ UNCHANGED << td_attempt, td_posts, td_sleeps, td_parts >>
     ELSE IF ~settings_has("OCR_SERVICE_URL")
     THEN /\ td_pc' = "done"
          /\ td_ret' = "OCR Failed: AttributeError"
          /\ UNCHANGED << td_attempt, td_posts, td_sleeps, td_parts >>
     ELSE LET o == td_script[td_attempt + 1]
          IN /\ td_posts' = td_posts + 1
             /\ IF o \in PostTransient /\ td_attempt < retry_attempts - 1
                THEN /\ td_sleeps' = Append(td_sleeps, pow2(td_attempt))
                     /\ td_attempt' = td_attempt + 1
                     /\ UNCHANGED << td_pc, td_ret, td_parts >>
                ELSE /\ td_pc' = "done"
                     /\ td_ret' =
                          CASE o = "timeout" -> "OCR Failed: Timeout after 3 attempts"
                            [] o = "connect_error" -> "OCR Failed: Connection error"
                            [] o = "http_status" -> "OCR Failed: HTTP status"
                            [] OTHER -> handle_response(o)
                     /\ td_parts' = IF o \in OkOutcomes
                                    THEN parse_response(BodyOf(o)).parts
                                    ELSE <<>>
                     /\ UNCHANGED << td_attempt, td_sleeps >>
  /\ UNCHANGED << td_url, td_script >>
  /\ UNCHANGED << svars, avars, xvars, fvars >>

\* ---------------------------------------------------------- specification
\* The service with one request, of either kind and with any body.
Next ==
  \/ \E ok \in BOOLEAN : Startup(ok)
  \/ \E urls \in Batches : PostOcr(1, urls)
  \/ \E i \in Items, o \in DownloadOutcomes : DownloadDone(1, i, o)
  \/ WorkerStart
  \/ \E j \in ex_running, out \in EngineOutcomes : WorkerFinish(j, out)
  \/ \E i \in Items, ext \in {Null, "ok", "raise"} : OcrResume(1, i, ext)
  \/ GatherDone(1)
  \/ \E ct \in UploadTypes, sz \in UploadSizes : PostUpload(1, ct, sz)
  \/ \E ext \in {Null, "ok", "raise"} : UploadResume(1, ext)
  \/ Cancel(1)

Spec == Init /\ [][Next]_vars

\* The service with up to NumRequests requests in progress at once, of
\* either kind.  What the executor does depends neither on which URL an item
\* has nor on why a download or an upload failed (a failed one never reaches
\* it), so here the /ocr bodies repeat one well-formed URL, a download either
\* succeeds or times out, an upload is a small file of an allowed or of a
\* refused type, and the requests arrive while the service is serving.
GatewayBatches == { LongBatch(n) : n \in 1..MaxBatchLen }
GatewayDownloads == {"ok", "timeout"}
GatewayUploadTypes == {"image/png", "text/html"}

ConcurrentNext ==
  \/ \E ok \in BOOLEAN : Startup(ok)
  \/ \E r \in Reqs, urls \in GatewayBatches : lifespan_pc = "serving" /\ PostOcr(r, urls)
  \/ \E r \in Reqs, i \in Items, o \in GatewayDownloads : DownloadDone(r, i, o)
  \/ WorkerStart
  \/ \E j \in ex_running, out \in EngineOutcomes : WorkerFinish(j, out)
  \/ \E r \in Reqs, i \in Items, ext \in {Null, "ok", "raise"} : OcrResume(r, i, ext)
  \/ \E r \in Reqs : GatherDone(r)
  \/ \E r \in Reqs, ct \in GatewayUploadTypes : lifespan_pc = "serving" /\ PostUpload(r, ct, 1)
  \/ \E r \in Reqs, ext \in {Null, "ok", "raise"} : UploadResume(r, ext)
  \/ \E r \in Reqs : Cancel(r)

ConcurrentSpec == Init /\ [][ConcurrentNext]_vars

\* The service with one /ocr request of one or two well-formed URLs, and
\* every response of the GET that ResponseOf describes.
FetchOutcomes ==
  DownloadOutcomes \cup
    {"too_large_no_length", "too_large_short_length", "at_limit", "just_over",
     "ok_params", "no_type_png", "no_type_html"}
FetchBatches == { <<1>>, <<1, 2>> }

FetchNext ==
  \/ Startup(TRUE)
  \/ \E urls \in FetchBatches : PostOcr(1, urls)
  \/ \E i \in Items, o \in FetchOutcomes : DownloadDone(1, i, o)
  \/ WorkerStart
  \/ \E j \in ex_running, out \in EngineOutcomes : WorkerFinish(j, out)
  \/ \E i \in Items, ext \in {Null, "ok", "raise"} : OcrResume(1, i, ext)
  \/ GatherDone(1)

FetchSpec == Init /\ [][FetchNext]_vars

\* The gateway with its worker thread scheduled: the worker takes the next
\* work item whenever the queue is not empty and it is free, and every
\* predict call it makes ends.  The order in which calls start depends on
\* the order of the submissions and on the cancellations only, so here
\* every download and upload is accepted and every predict call returns
\* a text.
WorkerEnds == \E j \in ex_running : WorkerFinish(j, "text")

GatewayNext ==
  \/ Startup(TRUE)
  \/ \E r \in Reqs, urls \in GatewayBatches : PostOcr(r, urls)
  \/ \E r \in Reqs, i \in Items : DownloadDone(r, i, "ok")
  \/ WorkerStart
  \/ WorkerEnds
  \/ \E r \in Reqs, i \in Items : OcrResume(r, i, "ok")
  \/ \E r \in Reqs : GatherDone(r)
  \/ \E r \in Reqs : PostUpload(r, "image/png", 1)
  \/ \E r \in Reqs : UploadResume(r, "ok")
  \/ \E r \in Reqs : Cancel(r)

GatewayFairSpec ==
  /\ Init
  /\ [][GatewayNext]_vars
  /\ WF_vars(WorkerStart)
  /\ WF_vars(WorkerEnds)

\* The service from construction to the end of its lifespan, with one
\* request that may arrive before startup, while serving or after shutdown,
\* and with readiness probes.  Bodies, downloads and uploads are those of
\* ConcurrentSpec.
LifeNext ==
  \/ \E ok \in BOOLEAN : Startup(ok)
  \/ ShutdownBegin
  \/ ShutdownEnd
  \/ Readiness
  \/ \E urls \in GatewayBatches : PostOcr(1, urls)
  \/ \E i \in Items, o \in GatewayDownloads : DownloadDone(1, i, o)
  \/ WorkerStart
  \/ \E j \in ex_running, out \in EngineOutcomes : WorkerFinish(j, out)
  \/ \E i \in Items, ext \in {Null, "ok", "raise"} : OcrResume(1, i, ext)
  \/ GatherDone(1)
  \/ \E ct \in GatewayUploadTypes : PostUpload(1, ct, 1)
  \/ \E ext \in {Null, "ok", "raise"} : UploadResume(1, ext)
  \/ Cancel(1)

LifeSpec == Init /\ [][LifeNext]_vars

\* The service with one request and a file system whose removals may fail
\* from the start.  Bodies, downloads and uploads are those of
\* ConcurrentSpec.
FaultNext ==
  \/ \E f \in Faults : FsFault(f)
  \/ Startup(TRUE)
  \/ \E urls \in GatewayBatches : PostOcr(1, urls)
  \/ \E i \in Items, o \in GatewayDownloads : DownloadDone(1, i, o)
  \/ WorkerStart
  \/ \E j \in ex_running, out \in EngineOutcomes : WorkerFinish(j, out)
  \/ \E i \in Items, ext \in {Null, "ok", "raise"} : OcrResume(1, i, ext)
  \/ GatherDone(1)
  \/ \E ct \in GatewayUploadTypes : PostUpload(1, ct, 1)
  \/ \E ext \in {Null, "ok", "raise"} : UploadResume(1, ext)
  \/ Cancel(1)

FaultSpec == Init /\ [][FaultNext]_vars

\* extract_markdown on every directory the results can have written.
ExtractNext ==
  \/ \E n \in FileNames, c \in FileContents : ExtractSave(n, c)
  \/ ExtractRead

ExtractSpec == Init /\ [][ExtractNext]_vars

ToolNext ==
  \/ \E u \in Urls, script \in Scripts : ToolCall(u, script)
  \/ ToolAttempt

ToolSpec == Init /\ [][ToolNext]_vars

\* ------------------------------------------------------------- properties
OcrResponded(r) == req_kind[r] = "ocr" /\ req_state[r] = "responded"

\* C1: in every response of POST /ocr, successful + failed equals
\* total_processed, which equals the number of URLs of the request.
C1_CountersAddUp ==
  \A r \in Reqs :
    OcrResponded(r) =>
      /\ response[r].successful + response[r].failed = response[r].total_processed
      /\ response[r].total_processed = Len(req_urls[r])

\* C1 witness: a response to two URLs with one success and one failure that
\* is neither a download nor an engine failure.
C1_Witness ==
  \E r \in Reqs :
    /\ OcrResponded(r)
    /\ Len(req_urls[r]) = 2
    /\ response[r].successful = 1
    /\ \E k \in 1..2 : response[r].results[k].error_type = "empty_result"

\* C2: in every response of POST /ocr, results[i] is the result of urls[i],
\* whatever the order in which the items completed.
C2_ResultsInInputOrder ==
  \A r \in Reqs :
    OcrResponded(r) =>
      /\ Len(response[r].results) = Len(req_urls[r])
      /\ \A i \in 1..Len(req_urls[r]) : response[r].results[i].url = req_urls[r][i]

\* C2 witness: a response to two different URLs whose second item completed
\* first.
C2_Witness ==
  \E r \in Reqs :
    /\ OcrResponded(r)
    /\ Len(req_urls[r]) = 2
    /\ req_urls[r][1] # req_urls[r][2]
    /\ done_seq[r] = <<2, 1>>

TaskEnded(t) == t.pc \in {"done", "cancelled", "raised"}

C4_OnePredictAtATime == Cardinality(ex_running) <= 1

\* C4 witness: predict runs for an item of a /ocr request while the job of
\* an upload waits in the queue.
C4_Witness ==
  \E j \in ex_running :
    /\ req_kind[j[1]] = "ocr"
    /\ ex_queue # <<>>
    /\ req_kind[Head(ex_queue)[1]] = "upload"
    /\ job[Head(ex_queue)[1]][Head(ex_queue)[2]].st = "pending"

\* The body of a POST /ocr is empty, too long or holds a URL that starts
\* with neither http:// nor https://.
BadBatch(v) ==
  \/ Len(v) = 0
  \/ Len(v) > MAX_URLS_PER_REQUEST
  \/ \E k \in 1..Len(v) : ~HasAllowedScheme(v[k])

\* C5: a request whose body is a bad batch is rejected, and no download was
\* started, no scratch resource created and no predict job submitted for any
\* of its URLs.
C5_GateAllOrNothing ==
  \A r \in Reqs :
    (req_kind[r] = "ocr" /\ BadBatch(req_urls[r])) =>
      /\ req_state[r] = "rejected"
      /\ \A i \in Items :
           /\ task[r][i] = NoTask
           /\ scratch[r][i] = NoScratch
           /\ job[r][i] = NoJob
      /\ \A k \in 1..Len(ex_queue) : ex_queue[k][1] # r
      /\ \A j \in ex_running : j[1] # r

\* C5 witness: a rejected batch of one well-formed and one malformed URL.
C5_Witness ==
  \E r \in Reqs :
    /\ req_state[r] = "rejected"
    /\ Len(req_urls[r]) = 2
    /\ HasAllowedScheme(req_urls[r][1])
    /\ ~HasAllowedScheme(req_urls[r][2])

\* What an item's result must be, given only what happened to this item.
ExpectedResult(t, eng) ==
  IF download_file(t.dl) # Null
  THEN /\ t.result.status = "error"
       /\ t.result.error_type = "download_error"
  ELSE IF eng = "raise" \/ t.ext = "raise"
       THEN /\ t.result.status = "error"
            /\ t.result.error_type = "processing_error"
       ELSE IF eng = "empty"
            THEN /\ t.result.status = "error"
                 /\ t.result.error_type = "empty_result"
            ELSE /\ t.result.status = "success"
                 /\ t.result.text = "md"

\* C6: an item's failure is that item's error result: the result of every
\* item is decided by its own download, engine and extraction outcomes, no
\* item's exception leaves its coroutine, no item is cancelled unless the
\* request is, and the response holds every item's own result.
C6_FailureIsolation ==
  \A r \in Reqs :
    req_kind[r] = "ocr" =>
      /\ \A i \in Items :
           /\ task[r][i].pc # "raised"
           /\ task[r][i].pc = "cancelled" => req_state[r] = "cancelled"
           /\ task[r][i].pc = "done" =>
                /\ task[r][i].result.url = task[r][i].url
                /\ ExpectedResult(task[r][i], job[r][i].out)
      /\ req_state[r] = "responded" =>
           /\ response[r].code = 200
           /\ \A i \in 1..Len(req_urls[r]) :
                /\ task[r][i].pc = "done"
                /\ response[r].results[i] = task[r][i].result

\* C6 witness: a response in which one item failed in the engine and its
\* sibling succeeded.
C6_Witness ==
  \E r \in Reqs :
    /\ OcrResponded(r)
    /\ \E i, k \in 1..Len(req_urls[r]) :
         /\ job[r][i].out = "raise"
         /\ response[r].results[i].error_type = "processing_error"
         /\ response[r].results[k].status = "success"

\* The first k POSTs of the script fail transiently.
TransientPrefix(script, k) == \A m \in 1..k : script[m] \in PostTransient

ToolDone == td_pc = "done" /\ HasAllowedScheme(td_url)

\* C7: when the endpoint fails transiently on the first k POSTs (k < 3) and
\* answers the next one with a 200, ocr_document has sent exactly k + 1 POSTs
\* when it returns, and it returns the outcome of that response.
C7_RetryThenSuccess ==
  ToolDone =>
    \A k \in 0..(retry_attempts - 1) :
      (TransientPrefix(td_script, k) /\ td_script[k + 1] \in {"ok_text", "ok_errors", "ok_none"})
        => /\ td_posts = k + 1
           /\ td_ret = handle_response(td_script[k + 1])

\* C8: when the endpoint fails transiently on every POST, ocr_document has
\* sent exactly retry_attempts POSTs when it returns, it returns the
\* exhaustion error of the kind of the last failure, and the return after
\* the loop is never reached.
C8_RetryExhaustion ==
  /\ td_ret # "OCR Failed: Max retries exceeded"
  /\ td_posts <= retry_attempts
  /\ (ToolDone /\ TransientPrefix(td_script, retry_attempts)) =>
       /\ td_posts = retry_attempts
       /\ td_ret = IF td_script[retry_attempts] = "timeout"
                   THEN "OCR Failed: Timeout after 3 attempts"
                   ELSE "OCR Failed: Connection error"

\* C9: an invalid URL scheme returns the scheme error with no POST sent, and
\* an HTTP error status on the n-th POST, after n - 1 transient failures,
\* returns the HTTP error with exactly n POSTs sent.
C9_NonTransientEndsAtOnce ==
  td_pc = "done" =>
    /\ ~HasAllowedScheme(td_url) =>
         /\ td_posts = 0
         /\ td_ret = "Error: Invalid URL scheme"
    /\ HasAllowedScheme(td_url) =>
         \A n \in 1..retry_attempts :
           (TransientPrefix(td_script, n - 1) /\ td_script[n] = "http_status")
             => /\ td_posts = n
                /\ td_ret = "OCR Failed: HTTP status"

\* C10: an item is reported with a download error caused by a timeout or a
\* connection error only after its download was attempted more than once.
C10_DownloadRetried ==
  \A r \in Reqs, i \in Items :
    (task[r][i].pc = "done" /\ task[r][i].dl \in TransientOutcomes) => task[r][i].gets > 1

\* ------------------------------------------------ download policy (C11-C13)
\* The GET of item i of request r was answered with a 2xx response.
Fetched(r, i) ==
  /\ task[r][i].dl # Null
  /\ ResponseOf(task[r][i].dl).kind = "response"
  /\ ResponseOf(task[r][i].dl).status < 400

\* The body of item i was written to a scratch file or its path was handed
\* to the executor.
HandedDownstream(r, i) == scratch[r][i].file # "none" \/ job[r][i].st # "none"

\* C11: a downloaded body longer than MAX_DOWNLOAD_SIZE is never written to
\* a scratch file nor handed to the engine, and its item ends with a download
\* error, whatever the Content-Length header says.
C11_OversizeNeverDownstream ==
  \A r \in Reqs, i \in Items :
    (Fetched(r, i) /\ ResponseOf(task[r][i].dl).size > MAX_DOWNLOAD_SIZE) =>
      /\ ~HandedDownstream(r, i)
      /\ task[r][i].pc = "done" => task[r][i].result.error_type = "download_error"

\* C12: a body is written to a scratch file or handed to the engine only if
\* the response declares a content type of the allow-list and the body is
\* of an allowed type (the URLs of the model have no path, so nothing but the
\* header can resolve a type).
C12_OnlyAllowedTypesDownstream ==
  \A r \in Reqs, i \in Items :
    (Fetched(r, i) /\ HandedDownstream(r, i)) =>
      /\ content_type_of(ResponseOf(task[r][i].dl)) \in ALLOWED_MIME_TYPES
      /\ ResponseOf(task[r][i].dl).body_type \in ALLOWED_MIME_TYPES

\* The response is an image of MAX_DOWNLOAD_SIZE + 5 MB (15 MB).
OversizedImage(resp) ==
  /\ resp.kind = "response"
  /\ resp.status = 200
  /\ resp.size = MAX_DOWNLOAD_SIZE + 5
  /\ resp.body_type = "image/png"

\* C13: the response to two URLs, the first answered with a valid document
\* under the limit that is recognised and the second with a 15 MB image, has
\* total_processed = 2, successful = 1, failed = 1, and its second entry is
\* the size violation and not a processing error.
C13_OversizedSecondItem ==
  \A r \in Reqs :
    ( /\ OcrResponded(r)
      /\ Len(req_urls[r]) = 2
      /\ task[r][1].dl = "ok"
      /\ task[r][1].result.status = "success"
      /\ OversizedImage(ResponseOf(task[r][2].dl)) ) =>
        /\ response[r].total_processed = 2
        /\ response[r].successful = 1
        /\ response[r].failed = 1
        /\ response[r].results[2].status = "error"
        /\ response[r].results[2].error = "File too large"
        /\ response[r].results[2].error_type # "processing_error"

\* ---------------------------------------------------- extraction (C14)
\* The markdown files of the directory.
MdFiles == { n \in listdir(x_dir) : endswith(FileNameText[n], <<".", "m", "d">>) }

\* q lists every markdown file once, in increasing order of file name.
InNameOrder(q) ==
  /\ { q[k] : k \in 1..Len(q) } = MdFiles
  /\ \A k \in 1..(Len(q) - 1) : str_lt(FileNameText[q[k]], FileNameText[q[k + 1]])

\* The contents of the files of q with a blank line between two files.
RECURSIVE JoinBlank(_)
JoinBlank(q) ==
  IF q = <<>> THEN <<>>
  ELSE IF Len(q) = 1 THEN x_dir[q[1]].content
  ELSE x_dir[q[1]].content \o <<"\n", "\n">> \o JoinBlank(Tail(q))

C15_EmptyResultCategory ==
  \A r \in Reqs :
    req_kind[r] = "ocr" =>
      /\ \A i \in Items :
           task[r][i].pc = "done" =>
             /\ ( /\ job[r][i].st = "finished"
                  /\ job[r][i].out # "raise"
                  /\ task[r][i].ext = "ok"
                  /\ md_of(job[r][i].out) = "" ) =>
                    /\ task[r][i].result.status = "error"
                    /\ task[r][i].result.error_type = "empty_result"
             /\ task[r][i].result.error_type = "empty_result" =>
                  /\ job[r][i].st = "finished"
                  /\ job[r][i].calls = 1
                  /\ job[r][i].out # "raise"
                  /\ task[r][i].ext = "ok"
      /\ OcrResponded(r) =>
           response[r].failed >=
             Cardinality({ k \in 1..Len(response[r].results) :
                             response[r].results[k].error_type = "empty_result" })

\* C15 witness: a response whose only item is an empty result, counted as
\* failed.
C15_Witness ==
  \E r \in Reqs :
    /\ OcrResponded(r)
    /\ Len(req_urls[r]) = 1
    /\ job[r][1].out = "empty"
    /\ response[r].results[1].error_type = "empty_result"
    /\ response[r].failed = 1
    /\ response[r].successful = 0

\* ------------------------------------------------- upload policy (C16)
\* C16: an upload that is longer than MAX_DOWNLOAD_SIZE, or whose content
\* type is not one of the allow-list (an upload that declares no content
\* type has none of the allow-list), is answered with an error while no
\* scratch resource was created, no predict call submitted and no GET sent.
C16_UploadPolicy ==
  \A r \in Reqs :
    ( /\ req_kind[r] = "upload"
      /\ req_state[r] # "unavailable"
      /\ \/ req_file[r].size > MAX_DOWNLOAD_SIZE
         \/ req_file[r].content_type \notin ALLOWED_MIME_TYPES ) =>
        /\ req_state[r] = "responded"
        /\ response[r].status = "error"
        /\ \A i \in Items :
             /\ scratch[r][i] = NoScratch
             /\ job[r][i] = NoJob
             /\ task[r][i].gets = 0

\* ------------------------------------------------- engine errors (C20)
\* C20: predict is called at most once for an item, and an item whose
\* predict call raised, or whose output raised while it was rendered to
\* markdown, ends after that one call with the category processing_error.
C20_EngineOnceNoRetry ==
  \A r \in Reqs, i \in Items :
    /\ job[r][i].calls <= 1
    /\ ( /\ req_kind[r] = "ocr"
         /\ task[r][i].pc = "done"
         /\ job[r][i].out = "raise" \/ task[r][i].ext = "raise" ) =>
           /\ job[r][i].calls = 1
           /\ task[r][i].result.status = "error"
           /\ task[r][i].result.error_type = "processing_error"

\* C20 witness: of two items, predict raised for one and the rendering of
\* the output raised for the other.
C20_Witness ==
  \E r \in Reqs :
    \E i, k \in Items :
      /\ task[r][i].pc = "done"
      /\ job[r][i].out = "raise"
      /\ task[r][i].result.error_type = "processing_error"
      /\ task[r][k].pc = "done"
      /\ job[r][k].out = "text"
      /\ task[r][k].ext = "raise"
      /\ task[r][k].result.error_type = "processing_error"

\* ------------------------------------------------------ readiness (C17)
\* app.state holds both the pipeline and the executor.
Initialized(pipeline, executor) == pipeline /\ executor # "unset"

\* No item coroutine, scratch resource or predict job exists for request r.
NoWork(r) ==
  /\ \A i \in Items :
       /\ task[r][i] = NoTask
       /\ scratch[r][i] = NoScratch
       /\ job[r][i] = NoJob
  /\ \A k \in 1..Len(ex_queue) : ex_queue[k][1] # r
  /\ \A j \in ex_running : j[1] # r

\* A request arrives in this step while app.state is not initialized.
ArrivesNotReady(r) ==
  /\ req_state[r] = "none"
  /\ req_state'[r] # "none"
  /\ ~Initialized(app_pipeline, app_executor)

C18_ExecutorLifetime ==
  /\ [](/\ ex_created <= 1
        /\ ex_shutdowns <= 1
        /\ ex_created = IF lifespan_pc \in {"serving", "draining", "stopped"} THEN 1 ELSE 0
        /\ ex_shutdowns = IF lifespan_pc \in {"draining", "stopped"} THEN 1 ELSE 0
        /\ (app_executor = "shutdown") = (ex_shutdowns = 1)
        /\ lifespan_pc = "stopped" =>
             /\ ex_queue = <<>>
             /\ ex_running = {}
             /\ \A r \in Reqs, i \in Items :
                  job[r][i].st \in {"none", "finished", "cancelled", "rejected"}
        /\ \A r \in Reqs, i \in Items :
             job[r][i].st = "rejected" =>
               /\ ex_shutdowns = 1
               /\ job[r][i].calls = 0
               /\ job[r][i].out = Null
               /\ \A k \in 1..Len(ex_queue) : ex_queue[k] # <<r, i>>)
  /\ [][app_executor = "shutdown" =>
          /\ \A r \in Reqs, i \in Items :
               job[r][i].st = "none" => job'[r][i].st \in {"none", "rejected"}
          /\ Len(ex_queue') <= Len(ex_queue)]_vars

\* C18 witness: shutdown has returned; the call of item 1, accepted before,
\* is finished and its coroutine has not resumed yet; the call of item 2,
\* submitted after, was rejected and is the item's error.
C18_Witness ==
  /\ lifespan_pc = "stopped"
  /\ job[1][1].st = "finished"
  /\ task[1][1].pc = "await_ocr"
  /\ job[1][2].st = "rejected"
  /\ task[1][2].pc = "done"
  /\ task[1][2].result.error_type = "processing_error"

\* ------------------------------------------------------ FIFO order (C19)
\* The predict call of item i of request r starts in this step.
Starts(r, i) == job[r][i].st = "pending" /\ job'[r][i].st = "running"

Cancelled(r) == req_state[r] = "running" /\ req_state'[r] = "cancelled"

\* After the cancellation of its request no item is still in progress and
\* no scratch file or directory of the request exists.
CancelledClean(r) ==
  req_state[r] = "cancelled" =>
    \A i \in Items :
      /\ task[r][i].pc \in {"none", "done", "cancelled"}
      /\ scratch[r][i].file # "exists"
      /\ scratch[r][i].dir # "exists"

\* From the cancellation of request r on, no predict call is submitted for it.
NoSubmitAfterCancel(r) ==
  (req_state[r] = "cancelled" \/ Cancelled(r)) =>
    /\ \A i \in Items : job[r][i].st = "none" => job'[r][i].st = "none"
    /\ \A k \in 1..Len(ex_queue') : ex_queue'[k][1] = r => ex_queue'[k] \in { ex_queue[m] : m \in 1..Len(ex_queue) }

C26_FileOutlivesCall ==
  \A r \in Reqs, i \in Items :
    job[r][i].st \in {"pending", "running"} => scratch[r][i].file = "exists"

\* ------------------------------------------------- shape of results (C23)
\* The category of a result: the value of its error_type field, Null if the
\* field is not set or the result's schema has no such field.
CategoryOf(res) == IF "error_type" \in DOMAIN res THEN res.error_type ELSE Null

WellFormedOutcome(res) ==
  /\ res.status \in {"success", "error"}
  /\ res.status = "success" =>
       (res.text \notin {Null, ""} /\ res.error = Null /\ CategoryOf(res) = Null)
  /\ res.status = "error" =>
       (res.error \notin {Null, ""} /\ CategoryOf(res) \notin {Null, ""} /\ res.text = Null)

\* C23: every result the service returns, an entry of an /ocr response or
\* an /ocr_upload response, is either a success with non-empty text and no
\* error fields or a failure with a non-empty message and a category.
C23_WellFormedOutcomes ==
  \A r \in Reqs :
    req_state[r] = "responded" =>
      IF req_kind[r] = "ocr"
      THEN \A k \in 1..Len(response[r].results) : WellFormedOutcome(response[r].results[k])
      ELSE WellFormedOutcome(response[r])

\* The same for the entries of /ocr responses alone.
OcrOutcomesWellFormed ==
  \A r \in Reqs :
    (req_state[r] = "responded" /\ req_kind[r] = "ocr") =>
      \A k \in 1..Len(response[r].results) : WellFormedOutcome(response[r].results[k])

\* ------------------------------------------------ release failures (C22)
\* What the answer to a finished upload must be, given the checks, the
\* engine's outcome and the rendering outcome alone.
ExpectedUpload(r) ==
  LET e == upload_check(req_file[r].content_type, req_file[r].size)
  IN IF e # Null
     THEN UploadOCRResponse("error", Null, e)
     ELSE upload_result(job[r][1].out = "raise" \/ task[r][1].ext = "raise",
                        md_of(job[r][1].out))

\* C22: whatever the file system does when a scratch file or directory is
\* released, no exception leaves an item and the reported outcome of an item
\* or an upload is the one its download, engine and rendering outcomes
\* decide; a failed removal only leaves a warning.
C22_ReleaseFailureOnlyLogged ==
  \A r \in Reqs :
    /\ \A i \in Items :
         /\ task[r][i].pc # "raised"
         /\ (req_kind[r] = "ocr" /\ task[r][i].pc = "done") =>
               ExpectedResult(task[r][i], job[r][i].out)
         /\ scratch[r][i].warned > 0 => remove_exc(fs_fault) # Null
    /\ (req_kind[r] = "upload" /\ req_state[r] = "responded") =>
          response[r] = ExpectedUpload(r)

\* C22 witness: the removal of the scratch directory and of the scratch
\* file of an item failed, both resources are still there, and the item's
\* result is the text.
C22_Witness ==
  \E r \in Reqs, i \in Items :
    /\ fs_fault = "denied"
    /\ req_kind[r] = "ocr"
    /\ task[r][i].pc = "done"
    /\ task[r][i].result.status = "success"
    /\ scratch[r][i].warned = 2
    /\ scratch[r][i].file = "exists"
    /\ scratch[r][i].dir = "exists"

\* ----------------------------------------- ocr_document's answer (C24, C25)
\* An entry that counts as a success: tagged success with a non-empty text,
\* or a non-empty text with no status tag.
IsSuccessEntry(res) ==
  truthy(res.text) /\ (res.status = "success" \/ res.status = Null)
HasError(res) == truthy(res.error)

Picked(results, P(_), field) ==
  LET sel == SelectSeq(results, P)
  IN [k \in 1..Len(sel) |-> sel[k][field]]

\* The 200 answer the tool gets after k transient failures, if there is one.
AnsweredAt(k) == TransientPrefix(td_script, k) /\ td_script[k + 1] \in OkOutcomes

\* C24: for the 200 answer the endpoint gives, ocr_document returns the
\* texts of the success entries joined if there is a success entry, the
\* error messages joined if there is none and some entry has an error, and
\* the no-text message otherwise.
C24_ResponseParsing ==
  ToolDone =>
    \A k \in 0..(retry_attempts - 1) :
      AnsweredAt(k) =>
        LET results == BodyOf(td_script[k + 1])
            texts == Picked(results, IsSuccessEntry, "text")
            errors == Picked(results, HasError, "error")
        IN IF texts # <<>>
           THEN td_ret = "full_text" /\ td_parts = join("\n\n---\n\n", texts)
           ELSE IF errors # <<>>
                THEN td_ret = "OCR Failed: errors" /\ td_parts = join("; ", errors)
                ELSE td_ret = "No text extracted from document." /\ td_parts = <<>>

\* The same for the answers whose entries with a text carry no error tag.
C24_ResponseParsingOfServiceAnswers ==
  ToolDone =>
    \A k \in 0..(retry_attempts - 1) :
      (AnsweredAt(k) /\ td_script[k + 1] # "ok_error_with_text") =>
        LET results == BodyOf(td_script[k + 1])
            texts == Picked(results, IsSuccessEntry, "text")
            errors == Picked(results, HasError, "error")
        IN IF texts # <<>>
           THEN td_ret = "full_text" /\ td_parts = join("\n\n---\n\n", texts)
           ELSE IF errors # <<>>
                THEN td_ret = "OCR Failed: errors" /\ td_parts = join("; ", errors)
                ELSE td_ret = "No text extracted from document." /\ td_parts = <<>>

RECURSIVE SumSeq(_)
SumSeq(xs) == IF xs = <<>> THEN 0 ELSE Head(xs) + SumSeq(Tail(xs))

\* The number of leading transient failures of the script.
RECURSIVE LeadingTransient(_)
LeadingTransient(script) ==
  IF script = <<>> \/ Head(script) \notin PostTransient
  THEN 0
  ELSE 1 + LeadingTransient(Tail(script))

\* C25: when ocr_document returns, a wait of 2^a seconds has followed every
\* transiently failed attempt a that was not the last one allowed, no other
\* wait was made, the number of waits is the number of attempts less one,
\* and the waits add up to 3 seconds at most.
C25_BackoffSchedule ==
  ToolDone =>
    LET waits == IF LeadingTransient(td_script) < retry_attempts
                 THEN LeadingTransient(td_script)
                 ELSE retry_attempts - 1
    IN /\ td_sleeps = [a \in 1..waits |-> pow2(a - 1)]
       /\ Len(td_sleeps) = (td_attempt + 1) - 1
       /\ SumSeq(td_sleeps) <= 1 + 2

====
